---- MODULE Spec2Model ----
(***************************************************************************)
(* Model of the OSF-project-to-PDF exporter.                               *)
(*                                                                         *)
(*   src/pdf_generator.py        build_pdf and the functions it calls      *)
(*   src/app_export_OSF_toPDF.py the Streamlit front end                   *)
(*                                                                         *)
(* Strings that the code builds by concatenation (file paths) are          *)
(* sequences of one-character strings, so that concatenation, emptiness    *)
(* and the position of every '/' are computed as the code computes them.   *)
(* A float rounded to two decimals is the integer number of hundredths.    *)
(***************************************************************************)
EXTENDS Integers, Sequences, FiniteSets, TLC

\* ------------------------------------------------------------------ bounds

\* Entries (files and folders) the server holds for one exported project,
\* its components included.
MaxEntries == 1
\* Components (children) of the exported project.
MaxComps == 2
\* Wiki pages of the exported project.
MaxWiki == 1
\* Entries the server holds when fetch_files is exercised on its own.
MaxTreeEntries == 3
\* Root projects get_nodes returns.
MaxRoots == 3
\* build_pdf calls one process makes when exports follow one another.
MaxCalls == 2

\* ------------------------------------------------------------ environment

\* File and folder names the server uses during a whole export, and when
\* fetch_files is exercised on its own.
Names == {<<"a">>}
TreeNames == {<<"a">>, <<"b">>}

\* JSON null for attributes.size
NoSize == [present |-> FALSE, bytes |-> 0]
SizeOf(n) == [present |-> TRUE, bytes |-> n]

\* Byte sizes served during a whole export.
ByteSizes == {SizeOf(1048576)}
\* Byte sizes served when fetch_files is exercised on its own: absent, zero,
\* below and above the first rounding step, two rounding ties, whole and
\* fractional megabytes.
TreeByteSizes ==
    {NoSize, SizeOf(0), SizeOf(5242), SizeOf(5243), SizeOf(131072),
     SizeOf(393216), SizeOf(1572864)}

\* HTTP statuses the server answers with (redirects are followed by the
\* HTTP client, so a final response is 2xx, 4xx or 5xx).
Statuses == {200, 404, 500}

\* Access tokens: "" is "no token".
ApiTokens == {"", "tok"}
EnvTokens == {"", "envtok"}
\* project_type: anything but "Private" takes the same branches as "Public".
ProjectTypes == {"Private", "Public"}

project_id == "p"
output_path == "out.pdf"
CompIds == <<"c1", "c2", "c3", "c4">>
WikiIds == <<"w1", "w2", "w3", "w4">>
Now == "2025-07-01 12:00:00 UTC"

\* ------------------------------------------------------------------ values

\* The values the name HEADERS can hold.
NoneHeaders == [kind |-> "None", token |-> ""]
Bearer(t) == [kind |-> "Bearer", token |-> t]
EmptyAuth == [kind |-> "EmptyDict", token |-> ""]

Url(node, path) == [node |-> node, path |-> path]

\* One entry of a listing served at url, at position i.
Entry(url, i, c) ==
    [kind |-> c.kind, name |-> c.name, size |-> c.size,
     href |-> Url(url.node, Append(url.path, i)),
     link |-> Url(url.node, Append(url.path, i))]

EntryChoices(names, sizes) ==
    [kind : {"folder"}, name : names, size : {NoSize}]
      \cup [kind : {"file"}, name : names, size : sizes]

\* (a check that lets client errors through)
RaiseOnServerErrorOnly(status) == status >= 500 /\ status < 600
\* r.raise_for_status()
raise_for_status(status) == status >= 400 /\ status < 600

\* ------------------------------------------------------------------ blocks

NoImg == [encodes |-> <<>>]
Block(t, style, text, header, rows, img) ==
    [t |-> t, style |-> style, text |-> text, header |-> header,
     rows |-> rows, img |-> img]
Paragraph(text, style) == Block("Paragraph", style, text, <<>>, <<>>, NoImg)
Spacer == Block("Spacer", "", <<>>, <<>>, <<>>, NoImg)
Table(header, rows) == Block("Table", "", <<>>, header, rows, NoImg)
RLImage(img) == Block("Image", "", <<>>, <<>>, <<>>, img)

\* ---------------------------------------------------------- pure functions

\* 1024 ** 2
MiB == 1048576

\* round(size_bytes / (1024 ** 2), 2), in hundredths of a megabyte. The
\* quotient is exact in binary floating point, so Python's round() rounds the
\* true value to the nearest hundredth, an exact tie to the even one.
\* (a conversion that drops the digits after the second decimal)
TruncSizeMb(size_bytes) == (size_bytes * 100) \div MiB
RoundSizeMb(size_bytes) ==
    LET q == (size_bytes * 100) \div MiB
        r == (size_bytes * 100) % MiB
    IN  IF 2 * r < MiB THEN q
        ELSE IF 2 * r > MiB THEN q + 1
        ELSE IF q % 2 = 0 THEN q ELSE q + 1

\* entry["attributes"]["size"] or 0
SizeOrZero(size) == IF size.present /\ size.bytes # 0 THEN size.bytes ELSE 0

\* (the path with the prefix reset, as in the commented-out line 125)
FullPathNoPrefix(path_prefix, name) == name
\* full_path = f"{path_prefix}/{name}" if path_prefix else name
FullPath(path_prefix, name) ==
    IF path_prefix # <<>> THEN path_prefix \o <<"/">> \o name ELSE name

\* The dict appended to all_files for a file entry.
FileDict(entry, full_path) ==
    [name |-> <<"/">> \o full_path,
     size |-> RoundSizeMb(SizeOrZero(entry.size)),
     link |-> entry.link]

\* f["size"] if f["size"] else "N/A"
SizeCell(size) ==
    IF size # 0 THEN [num |-> size, str |-> ""] ELSE [num |-> 0, str |-> "N/A"]

FileTableHeader == <<"File Name", "Size \n(MB)", "Download Link">>
FileRow(f) == [name |-> f.name, size |-> SizeCell(f.size), link |-> f.link]

NoFilesLine == Paragraph(<<"3. No files available.">>, "Normal")
FilesHeading == Paragraph(<<"3. Files OSF Storage">>, "MyHeading2")

\* render_file_table(files, story, styles, heading): the story afterwards.
\* heading = <<>> stands for None.
render_file_table(files, story, heading) ==
    LET s1 == IF heading # <<>>
              THEN Append(story, Paragraph(heading, "MyHeading2"))
              ELSE story
    IN  IF files = <<>>
        THEN Append(s1, NoFilesLine)
        ELSE s1 \o <<FilesHeading,
                     Table(FileTableHeader,
                           [i \in 1..Len(files) |-> FileRow(files[i])]),
                     Spacer>>

\* dict.get(key, default)
Get(d, key, default) == IF key \in DOMAIN d THEN d[key] ELSE default
YesNo(v) == IF v = "true" THEN "Yes" ELSE "No"

MetaLine(label, value) == Paragraph(<<label, value>>, "Normal")

\* render_metadata_section(metadata, story, styles, timestamp)
render_metadata_section(metadata, story, timestamp) ==
    LET a == metadata.attributes
        names == IF metadata.institutions # <<>>
                 THEN metadata.institutions ELSE <<"None listed">>
    IN  story \o
        <<Paragraph(<<"1. Project Metadata">>, "MyHeading2"),
          MetaLine("Title", Get(a, "title", "N/A")),
          MetaLine("Description", Get(a, "description", "No description provided")),
          MetaLine("Date Created", Get(a, "date_created", "N/A")),
          MetaLine("Last Modified", Get(a, "date_modified", "N/A")),
          MetaLine("Category", Get(a, "category", "N/A")),
          MetaLine("Public?", YesNo(Get(a, "public", "false"))),
          MetaLine("Registration?", YesNo(Get(a, "registered", "false"))),
          MetaLine("Tags", Get(a, "tags", "N/A")),
          MetaLine("Current Permissions", Get(a, "current_user_permissions", "N/A")),
          MetaLine("DOI", Get(a, "doi", "N/A")),
          MetaLine("Exported At", timestamp),
          Paragraph(<<"Affiliated Institution(s):">> \o names, "Normal"),
          Spacer>>

ContributorsHeader == <<"Name", "Bibliographic?", "Email (if available)">>
ContributorRow(c) ==
    [name |-> c.full_name, biblio |-> YesNo(c.bibliographic), email |-> c.email]

\* render_contributors_section(contributors, story, styles)
render_contributors_section(contributors, story) ==
    LET s1 == Append(story, Paragraph(<<"2. Contributors">>, "MyHeading2"))
    IN  IF contributors = <<>>
        THEN Append(s1, Paragraph(<<"No contributors found.">>, "Normal"))
        ELSE s1 \o <<Table(ContributorsHeader,
                           [i \in 1..Len(contributors) |->
                               ContributorRow(contributors[i])]),
                     Spacer>>

\* project_url, build_pdf lines 291-294
ProjectUrl(id, isTest) ==
    IF isTest THEN <<"https://test.osf.io/", id, "/">>
    ELSE <<"https://osf.io/", id, "/">>

\* generate_qr_code(url): the image, known by the URL it encodes.
generate_qr_code(url) == [encodes |-> url]

\* get_headers(project_type): the value it returns. Its assignment to the
\* name HEADERS binds a local of get_headers, not the module's HEADERS.
get_headers(project_type, osf_token) ==
    IF project_type = "Private" THEN Bearer(osf_token) ELSE EmptyAuth

\* ------------------------------------------------------- server's answers

FullMetadata ==
    [attributes |->
        [title |-> "My Project", description |-> "About", date_created |-> "2025-01-01",
         date_modified |-> "2025-02-02", category |-> "project", public |-> "true",
         registered |-> "false", tags |-> "t", current_user_permissions |-> "read",
         doi |-> "10.1/x"],
     institutions |-> <<"UoM">>]
BareMetadata == [attributes |-> [title |-> "My Project"], institutions |-> <<>>]
MetadataChoices == {FullMetadata, BareMetadata}
NoMetadata == [attributes |-> [title |-> ""], institutions |-> <<>>]

ContributorChoices ==
    {<<>>, <<[full_name |-> "Ada", bibliographic |-> "true", email |-> "N/A"]>>}

Component(i) ==
    [id |-> CompIds[i], title |-> CompIds[i],
     html |-> <<"https://osf.io/", CompIds[i], "/">>]
ComponentChoices == {[i \in 1..n |-> Component(i)] : n \in 0..MaxComps}

WikiPage(i) == [id |-> WikiIds[i], name |-> "Home"]
WikiChoices == {[i \in 1..n |-> WikiPage(i)] : n \in 0..MaxWiki}
\* r.text of a wiki page
WikiTexts == {"", "text"}

\* -------------------------------------------------------------------- state

VARIABLES
    OSF_TOKEN,      \* module global: os.getenv("OSF_TOKEN", "")
    HEADERS,        \* module global HEADERS
    pc,             \* where build_pdf is
    args,           \* build_pdf's arguments
    token,          \* build_pdf's local token
    hdrs,           \* build_pdf's local HEADERS
    requests,       \* every requests.get issued, in order
    metadata, contributors, components,
    doc,            \* the SimpleDocTemplate
    story,          \* the list of flowables
    stack,          \* call stack of traverse_files
    all_files,      \* fetch_files' all_files
    tree,           \* listings the server has served, by URL
    quota,          \* entries the server can still serve
    wiki_pages, wi, \* render_wiki_section's list and loop position
    ci,             \* position of build_pdf's loop over components
    result,         \* how build_pdf ended
    calls_left,     \* build_pdf calls the process still makes
    earlier         \* project_type and api_token of the call before this one

pdfVars ==
    <<OSF_TOKEN, HEADERS, pc, args, token, hdrs, requests, metadata,
      contributors, components, doc, story, stack, all_files, tree, quota,
      wiki_pages, wi, ci, result, calls_left, earlier>>

NoArgs == [project_type |-> "None", api_token |-> "", isTest |-> FALSE]
\* What a page callback of the document draws on a page. reportlab's default
\* callback draws nothing.
PageCallback(timestamp, page_number, qr) ==
    [timestamp |-> timestamp, page_number |-> page_number, qr |-> qr]
doNothing == PageCallback("", FALSE, NoImg)
NoDoc == [opened |-> FALSE, built |-> FALSE, filename |-> "", story |-> <<>>,
          onFirstPage |-> doNothing, onLaterPages |-> doNothing]
NoResult == [kind |-> "", exc |-> "", at |-> "", value |-> ""]
EmptyTree == [u \in {} |-> <<>>]

NoCall == [project_type |-> "None", api_token |-> ""]

\* The module after import, in a process that makes n build_pdf calls
\* against a server holding q entries.
InitPdf(q, n) ==
    /\ OSF_TOKEN \in EnvTokens
    /\ HEADERS = NoneHeaders
    /\ pc = "idle"
    /\ args = NoArgs
    /\ token = ""
    /\ hdrs = NoneHeaders
    /\ requests = <<>>
    /\ metadata = NoMetadata
    /\ contributors = <<>>
    /\ components = <<>>
    /\ doc = NoDoc
    /\ story = <<>>
    /\ stack = <<>>
    /\ all_files = <<>>
    /\ tree = EmptyTree
    /\ quota = q
    /\ wiki_pages = <<>>
    /\ wi = 0
    /\ ci = 0
    /\ result = NoResult
    /\ calls_left = n
    /\ earlier = NoCall

\* requests.get(url, headers=HEADERS): HEADERS is the module global. The log
\* keeps the request and whether the response it got was a 2xx.
HttpGet(resource, status) ==
    requests' = Append(requests,
        [resource |-> resource, headers |-> HEADERS,
         success |-> status \in 200..299])

\* An exception leaves build_pdf.
Raise(exc, at) ==
    /\ pc' = "raised"
    /\ result' = [kind |-> "raise", exc |-> exc, at |-> at, value |-> ""]

\* ----------------------------------------------------------------- build_pdf

\* A call starts when the process is not inside one and has one to make.
\* Its locals are fresh: nothing of the call before it is left but the
\* module's globals.
CallStarts ==
    /\ pc \in {"idle", "done", "raised"}
    /\ calls_left > 0
    /\ calls_left' = calls_left - 1
    /\ earlier' = [project_type |-> args.project_type,
                   api_token |-> args.api_token]
    /\ requests' = <<>>
    /\ metadata' = NoMetadata
    /\ contributors' = <<>>
    /\ components' = <<>>
    /\ doc' = NoDoc
    /\ story' = <<>>
    /\ stack' = <<>>
    /\ all_files' = <<>>
    /\ tree' = EmptyTree
    /\ quota' = MaxEntries
    /\ wiki_pages' = <<>>
    /\ wi' = 0
    /\ ci' = 0

\* (a call that goes on to the first request without the token check)
build_pdf_unchecked(project_type, api_token, isTest) ==
    /\ CallStarts
    /\ args' = [project_type |-> project_type, api_token |-> api_token,
                isTest |-> isTest]
    /\ hdrs' = get_headers(project_type, OSF_TOKEN)
    /\ token' = api_token
    /\ pc' = "metadata"
    /\ result' = NoResult
    /\ UNCHANGED <<OSF_TOKEN, HEADERS>>

\* (a call whose get_headers declares HEADERS global)
build_pdf_global(project_type, api_token, isTest) ==
    /\ CallStarts
    /\ args' = [project_type |-> project_type, api_token |-> api_token,
                isTest |-> isTest]
    /\ hdrs' = get_headers(project_type, OSF_TOKEN)
    /\ HEADERS' = get_headers(project_type, OSF_TOKEN)
    /\ LET tok == IF project_type = "Private" /\ api_token = ""
                  THEN OSF_TOKEN
                  ELSE api_token
       IN  /\ token' = tok
           /\ IF project_type = "Private" /\ tok = ""
              THEN Raise("ValueError", "token")
              ELSE pc' = "metadata" /\ result' = NoResult
    /\ UNCHANGED OSF_TOKEN

\* build_pdf lines 275-286: the call, the headers (get_headers binds its
\* own local HEADERS, build_pdf binds its own: the module's HEADERS is not
\* assigned), the token check.
build_pdf(project_type, api_token, isTest) ==
    /\ CallStarts
    /\ args' = [project_type |-> project_type, api_token |-> api_token,
                isTest |-> isTest]
    /\ hdrs' = get_headers(project_type, OSF_TOKEN)
    /\ LET tok == IF project_type = "Private" /\ api_token = ""
                  THEN OSF_TOKEN      \* load_dotenv(); os.getenv("OSF_TOKEN")
                  ELSE api_token
       IN  /\ token' = tok
           /\ IF project_type = "Private" /\ tok = ""
              THEN Raise("ValueError", "token")
              ELSE pc' = "metadata" /\ result' = NoResult
    /\ UNCHANGED <<OSF_TOKEN, HEADERS>>

\* fetch_project_metadata(project_id)
fetch_project_metadata ==
    /\ pc = "metadata"
    /\ \E status \in Statuses :
          /\ HttpGet("metadata", status)
          /\ IF raise_for_status(status)
             THEN Raise("HTTPError", "metadata") /\ UNCHANGED metadata
             ELSE /\ \E m \in MetadataChoices : metadata' = m
                  /\ pc' = "contributors"
                  /\ UNCHANGED result
    /\ UNCHANGED <<OSF_TOKEN, HEADERS, calls_left, earlier, args, token, hdrs, contributors,
                   components, doc, story, stack, all_files, tree, quota,
                   wiki_pages, wi, ci>>

\* fetch_contributors(project_id)
fetch_contributors ==
    /\ pc = "contributors"
    /\ \E status \in Statuses :
          /\ HttpGet("contributors", status)
          /\ IF raise_for_status(status)
             THEN Raise("HTTPError", "contributors") /\ UNCHANGED contributors
             ELSE /\ \E c \in ContributorChoices : contributors' = c
                  /\ pc' = "children"
                  /\ UNCHANGED result
    /\ UNCHANGED <<OSF_TOKEN, HEADERS, calls_left, earlier, args, token, hdrs, metadata,
                   components, doc, story, stack, all_files, tree, quota,
                   wiki_pages, wi, ci>>

\* fetch_components(project_id)
fetch_components(choices) ==
    /\ pc = "children"
    /\ \E status \in Statuses :
          /\ HttpGet("children", status)
          /\ IF raise_for_status(status)
             THEN Raise("HTTPError", "children") /\ UNCHANGED components
             ELSE /\ \E c \in choices : components' = c
                  /\ pc' = "cover"
                  /\ UNCHANGED result
    /\ UNCHANGED <<OSF_TOKEN, HEADERS, calls_left, earlier, args, token, hdrs, metadata,
                   contributors, doc, story, stack, all_files, tree, quota,
                   wiki_pages, wi, ci>>

\* build_pdf lines 291-311: the document object and the cover.
CoverBlocks(title, project_url) ==
    <<Paragraph(<<title>>, "MyHeading1"),
      Paragraph(<<"Project URL: ">> \o project_url, "Normal"),
      RLImage(generate_qr_code(project_url)),
      Spacer>>

build_cover ==
    /\ pc = "cover"
    /\ doc' = [NoDoc EXCEPT !.opened = TRUE, !.filename = output_path]
    /\ story' = CoverBlocks(metadata.attributes.title,
                            ProjectUrl(project_id, args.isTest))
    /\ pc' = "metadata_section"
    /\ UNCHANGED <<OSF_TOKEN, HEADERS, calls_left, earlier, args, token, hdrs, requests, metadata,
                   contributors, components, stack, all_files, tree, quota,
                   wiki_pages, wi, ci, result>>

\* (the two sections in the other order)
build_sections_swapped ==
    /\ pc = "metadata_section"
    /\ story' = render_metadata_section(metadata,
                    render_contributors_section(contributors, story), Now)
    /\ pc' = "call_main_files"
    /\ UNCHANGED <<OSF_TOKEN, HEADERS, calls_left, earlier, args, token, hdrs, requests, metadata,
                   contributors, components, doc, stack, all_files, tree,
                   quota, wiki_pages, wi, ci, result>>

\* build_pdf lines 313-314
build_sections ==
    /\ pc = "metadata_section"
    /\ story' = render_contributors_section(contributors,
                    render_metadata_section(metadata, story, Now))
    /\ pc' = "call_main_files"
    /\ UNCHANGED <<OSF_TOKEN, HEADERS, calls_left, earlier, args, token, hdrs, requests, metadata,
                   contributors, components, doc, stack, all_files, tree,
                   quota, wiki_pages, wi, ci, result>>

\* --------------------------------------------------------------- fetch_files

\* One activation of traverse_files(api_url, path_prefix).
Frame(url, path_prefix) ==
    [url |-> url, path_prefix |-> path_prefix, fetched |-> FALSE,
     entries |-> <<>>, i |-> 1]

Top == stack[Len(stack)]
Pop(s) == SubSeq(s, 1, Len(s) - 1)
SetTop(s, f) == [s EXCEPT ![Len(s)] = f]

InFetchFiles == pc \in {"main_files", "comp_files"}

\* fetch_files(component_id) lines 113-116 and 141: the first call of
\* traverse_files, on the storage root.
FetchFilesStart(node) ==
    /\ stack' = <<Frame(Url(node, <<>>), <<>>)>>
    /\ all_files' = <<>>

\* build_pdf line 316: fetch_files(project_id) is called.
fetch_files_main ==
    /\ pc = "call_main_files"
    /\ FetchFilesStart(project_id)
    /\ pc' = "main_files"
    /\ UNCHANGED <<OSF_TOKEN, HEADERS, calls_left, earlier, args, token, hdrs, requests, metadata,
                   contributors, components, doc, story, tree, quota,
                   wiki_pages, wi, ci, result>>

\* traverse_files lines 118-120: the GET of one listing.
traverse_get(names, sizes) ==
    /\ InFetchFiles
    /\ stack # <<>>
    /\ ~Top.fetched
    /\ \E status \in Statuses :
          /\ HttpGet("files", status)
          /\ IF raise_for_status(status)
             THEN /\ Raise("HTTPError", "files")
                  /\ UNCHANGED <<stack, tree, quota>>
             ELSE \E n \in 0..quota :
                  \E cs \in [1..n -> EntryChoices(names, sizes)] :
                     LET listing == [i \in 1..n |-> Entry(Top.url, i, cs[i])]
                     IN  /\ tree' = (Top.url :> listing) @@ tree
                         /\ quota' = quota - n
                         /\ stack' = SetTop(stack,
                                [Top EXCEPT !.fetched = TRUE, !.entries = listing])
                         /\ UNCHANGED <<pc, result>>
    /\ UNCHANGED <<OSF_TOKEN, HEADERS, calls_left, earlier, args, token, hdrs, metadata,
                   contributors, components, doc, story, all_files,
                   wiki_pages, wi, ci>>

\* traverse_files lines 122-139: one iteration of the loop over entries.
traverse_entry ==
    /\ InFetchFiles
    /\ stack # <<>>
    /\ Top.fetched
    /\ Top.i <= Len(Top.entries)
    /\ LET entry == Top.entries[Top.i]
           full_path == FullPath(Top.path_prefix, entry.name)
           resumed == SetTop(stack, [Top EXCEPT !.i = Top.i + 1])
       IN  IF entry.kind = "file"
           THEN /\ all_files' = Append(all_files, FileDict(entry, full_path))
                /\ stack' = resumed
           ELSE IF entry.kind = "folder"
           THEN /\ stack' = Append(resumed, Frame(entry.href, full_path))
                /\ UNCHANGED all_files
           ELSE /\ stack' = resumed
                /\ UNCHANGED all_files
    /\ UNCHANGED <<OSF_TOKEN, HEADERS, calls_left, earlier, pc, args, token, hdrs, requests,
                   metadata, contributors, components, doc, story, tree,
                   quota, wiki_pages, wi, ci, result>>

\* traverse_files: the loop is over, the activation returns.
traverse_return ==
    /\ InFetchFiles
    /\ stack # <<>>
    /\ Top.fetched
    /\ Top.i > Len(Top.entries)
    /\ stack' = Pop(stack)
    /\ UNCHANGED <<OSF_TOKEN, HEADERS, calls_left, earlier, pc, args, token, hdrs, requests,
                   metadata, contributors, components, doc, story, all_files,
                   tree, quota, wiki_pages, wi, ci, result>>

\* build_pdf line 316: fetch_files has returned, the main table is rendered.
MainHeading == <<"Files in Main Project">>

render_main_files ==
    /\ pc = "main_files"
    /\ stack = <<>>
    /\ story' = render_file_table(all_files, story, MainHeading)
    /\ pc' = "wiki"
    /\ UNCHANGED <<OSF_TOKEN, HEADERS, calls_left, earlier, args, token, hdrs, requests, metadata,
                   contributors, components, doc, stack, all_files, tree,
                   quota, wiki_pages, wi, ci, result>>

\* --------------------------------------------------------- render_wiki_section

WikiHeading == Paragraph(<<"4. Wiki">>, "MyHeading2")
WikiErrorBlocks(e) ==
    <<Paragraph(<<"Error">>, "MyHeading3"),
      Paragraph(<<"Could not fetch wiki: ", e>>, "Normal")>>
NoWikiLine == Paragraph(<<"No wiki pages found.">>, "Normal")
NoContentLine ==
    Paragraph(<<"No content returned or unauthorized access">>, "Normal")

\* (an except clause that lets the failure leave render_wiki_section)
wiki_except_propagates ==
    /\ Raise("HTTPError", "wikis")
    /\ UNCHANGED story
\* render_wiki_section lines 269-271: the except clause, after the heading
\* of line 250.
wiki_except ==
    /\ story' = Append(story, WikiHeading) \o WikiErrorBlocks("HTTPError")
    /\ pc' = "components"
    /\ UNCHANGED result

\* render_wiki_section lines 250-255, with fetch_wiki_pages.
fetch_wiki_pages(choices) ==
    /\ pc = "wiki"
    /\ \E status \in Statuses :
          /\ HttpGet("wikis", status)
          /\ IF raise_for_status(status)
             THEN wiki_except /\ UNCHANGED <<wiki_pages, wi>>
             ELSE \E pages \in choices :
                  /\ UNCHANGED result
                  /\ IF pages = <<>>
                     THEN /\ story' = Append(story, WikiHeading) \o <<NoWikiLine>>
                          /\ pc' = "components"
                          /\ UNCHANGED <<wiki_pages, wi>>
                     ELSE /\ story' = Append(story, WikiHeading)
                          /\ wiki_pages' = pages
                          /\ wi' = 1
                          /\ pc' = "wiki_content"
    /\ UNCHANGED <<OSF_TOKEN, HEADERS, calls_left, earlier, args, token, hdrs, metadata,
                   contributors, components, doc, stack, all_files, tree,
                   quota, ci>>

\* What fetch_wiki_content_by_id returns: the text, or None ("" here, both
\* are falsy) when the request raised.
WikiContent(status, text) == IF raise_for_status(status) THEN "" ELSE text

\* render_wiki_section lines 256-268: one page.
WikiPageBlocks(page, content) ==
    <<Paragraph(<<page.id>>, "Normal"),
      Paragraph(<<page.name>>, "MyHeading3"),
      IF content # "" THEN Paragraph(<<content>>, "Normal") ELSE NoContentLine,
      Spacer>>

fetch_wiki_content_by_id ==
    /\ pc = "wiki_content"
    /\ \E status \in Statuses, text \in WikiTexts :
          /\ HttpGet("wiki_content", status)
          /\ story' = story \o
                WikiPageBlocks(wiki_pages[wi], WikiContent(status, text))
    /\ wi' = wi + 1
    /\ pc' = IF wi = Len(wiki_pages) THEN "components" ELSE "wiki_content"
    /\ UNCHANGED <<OSF_TOKEN, HEADERS, calls_left, earlier, args, token, hdrs, metadata,
                   contributors, components, doc, stack, all_files, tree,
                   quota, wiki_pages, ci, result>>

\* ------------------------------------------------------------------ components

ComponentsHeading == Paragraph(<<"5. Components and Their Files">>, "MyHeading2")

\* build_pdf line 320
components_section ==
    /\ pc = "components"
    /\ story' = Append(story, ComponentsHeading)
    /\ ci' = 1
    /\ pc' = IF components = <<>> THEN "build" ELSE "component"
    /\ UNCHANGED <<OSF_TOKEN, HEADERS, calls_left, earlier, args, token, hdrs, requests, metadata,
                   contributors, components, doc, stack, all_files, tree,
                   quota, wiki_pages, wi, result>>

ComponentBlocks(comp) ==
    <<Paragraph(<<comp.title>>, "MyHeading3"),
      Paragraph(<<"Component URL: ">> \o comp.html, "Normal")>>

\* build_pdf lines 322-327, up to the first request of fetch_files(comp_id).
component_begin ==
    /\ pc = "component"
    /\ story' = story \o ComponentBlocks(components[ci])
    /\ FetchFilesStart(components[ci].id)
    /\ pc' = "comp_files"
    /\ UNCHANGED <<OSF_TOKEN, HEADERS, calls_left, earlier, args, token, hdrs, requests, metadata,
                   contributors, components, doc, tree, quota, wiki_pages,
                   wi, ci, result>>

\* build_pdf line 327: fetch_files has returned, the table is rendered.
render_comp_files ==
    /\ pc = "comp_files"
    /\ stack = <<>>
    /\ story' = render_file_table(all_files, story, <<>>)
    /\ ci' = ci + 1
    /\ pc' = IF ci = Len(components) THEN "build" ELSE "component"
    /\ UNCHANGED <<OSF_TOKEN, HEADERS, calls_left, earlier, args, token, hdrs, requests, metadata,
                   contributors, components, doc, stack, all_files, tree,
                   quota, wiki_pages, wi, result>>

\* build_pdf lines 329-330: doc.build(story) with no page callbacks, so
\* reportlab's default (draw nothing) decorates every page.
doc_build ==
    /\ pc = "build"
    /\ doc' = [doc EXCEPT !.built = TRUE, !.story = story,
                          !.onFirstPage = doNothing,
                          !.onLaterPages = doNothing]
    /\ result' = [kind |-> "return", exc |-> "", at |-> "", value |-> output_path]
    /\ pc' = "done"
    /\ UNCHANGED <<OSF_TOKEN, HEADERS, calls_left, earlier, args, token, hdrs, requests, metadata,
                   contributors, components, story, stack, all_files, tree,
                   quota, wiki_pages, wi, ci>>

\* ------------------------------------------------- app_export_OSF_toPDF.py

\* PROJECT_GROUPS[0], PROJECT_GROUPS[1]
AllProjects == "All projects where I'm a Contributor"
SingleProject == "Single Project"
PROJECT_GROUPS == <<AllProjects, SingleProject>>

\* What the user can type: project ids ("" is an empty field) and tokens.
ProjectIds == {"", "abcde", "fghij"}
Pats == {"", "pat"}

VARIABLES
    project_group,  \* the radio's value
    project_id_in,  \* project_id of the last script run
    session_state,  \* current_id, checked_if_public, is_public
    checked_id,     \* the id check_visibility last asked the API about
    pat,            \* pat of the last script run
    pat_shown,      \* a token field was rendered by the last script run
    export_enabled, \* the "Export to PDF" button was rendered enabled
    app_pc,         \* where the export handler is
    root_nodes,     \* get_nodes' second result
    root_i,         \* position of the loop over root_nodes
    paths, pdf_count,
    tmpdir,         \* the files of the temporary directory
    archive,        \* the files of the zip archive made, if any
    downloads,      \* the download buttons on the page
    messages        \* st.error / st.info / st.success and exception boxes

appVars ==
    <<project_group, project_id_in, session_state, checked_id, pat, pat_shown,
      export_enabled, app_pc, root_nodes, root_i, paths, pdf_count, tmpdir,
      archive, downloads, messages>>

vars == <<pdfVars, appVars>>

\* Lines 42-50: the session state of a new session.
NewSession == [current_id |-> "", checked_if_public |-> FALSE, is_public |-> FALSE]

\* (a changed id is stored and the result of the check is kept)
AfterIdCheckKeepsResult(ss, group, id) ==
    IF group = SingleProject /\ ss.current_id # id
    THEN [ss EXCEPT !.current_id = id]
    ELSE ss

\* Lines 84-87: a changed id resets the visibility check.
AfterIdCheck(ss, group, id) ==
    IF group = SingleProject /\ ss.current_id # id
    THEN [current_id |-> id, checked_if_public |-> FALSE, is_public |-> FALSE]
    ELSE ss

\* Lines 95-106: a token field is rendered.
PatFieldShown(ss, group) ==
    \/ group = SingleProject /\ ss.checked_if_public /\ ~ss.is_public
    \/ group = AllProjects

\* Lines 112-115: valid_export_state.
valid_export_state(ss, group, p) ==
    \/ group = AllProjects /\ p # ""
    \/ group = SingleProject /\ ss.is_public
    \/ group = SingleProject /\ p # ""

\* One run of the script, lines 36-119, with the widgets holding these
\* values: the radio, the id field (not rendered, so empty, outside
\* single-project mode), the token field (its text is dropped when the run
\* does not render it). No export: the page shows no handler output.
ScriptRun(ss, group, id, p) ==
    LET id2 == IF group = SingleProject THEN id ELSE ""
        ss2 == AfterIdCheck(ss, group, id2)
        shown == PatFieldShown(ss2, group)
        p2 == IF shown THEN p ELSE ""
    IN  /\ project_group' = group
        /\ project_id_in' = id2
        /\ session_state' = ss2
        /\ pat_shown' = shown
        /\ pat' = p2
        /\ export_enabled' = valid_export_state(ss2, group, p2)

HandlerIdle ==
    /\ app_pc' = "idle"
    /\ root_nodes' = <<>>
    /\ root_i' = 0
    /\ paths' = <<>>
    /\ pdf_count' = 0
    /\ tmpdir' = {}
    /\ archive' = {}
    /\ downloads' = <<>>
    /\ messages' = <<>>

\* No script run is under way.
Interactive == app_pc \in {"idle", "done", "failed"}

InitApp ==
    /\ project_group = AllProjects
    /\ project_id_in = ""
    /\ session_state = NewSession
    /\ checked_id = ""
    /\ pat = ""
    /\ pat_shown = TRUE
    /\ export_enabled = FALSE
    /\ app_pc = "idle"
    /\ root_nodes = <<>>
    /\ root_i = 0
    /\ paths = <<>>
    /\ pdf_count = 0
    /\ tmpdir = {}
    /\ archive = {}
    /\ downloads = <<>>
    /\ messages = <<>>

\* The user picks a project group (line 73).
SelectGroup(group) ==
    /\ Interactive
    /\ group # project_group
    /\ ScriptRun(session_state, group, "", pat)
    /\ HandlerIdle
    /\ UNCHANGED checked_id
    /\ UNCHANGED pdfVars

\* The user types a project URL or id (lines 76-80).
EnterProject(id) ==
    /\ Interactive
    /\ project_group = SingleProject
    /\ id # project_id_in
    /\ ScriptRun(session_state, project_group, id, pat)
    /\ HandlerIdle
    /\ UNCHANGED checked_id
    /\ UNCHANGED pdfVars

\* The user clicks "Check Project is Public" (lines 89-93), enabled when
\* the last run had an id. The callback check_visibility (lines 66-68) runs
\* first, with the project_id of the run that rendered the button; then
\* the script runs with the id field as it is now: id, which differs from
\* that project_id when the click also commits a change of the field.
ClickCheck(id) ==
    /\ Interactive
    /\ project_group = SingleProject
    /\ project_id_in # ""
    /\ checked_id' = project_id_in
    /\ \E public \in BOOLEAN :
          ScriptRun([session_state EXCEPT !.is_public = public,
                                          !.checked_if_public = TRUE],
                    project_group, id, pat)
    /\ HandlerIdle
    /\ UNCHANGED pdfVars

\* The user types a token (lines 99, 106).
EnterPat(p) ==
    /\ Interactive
    /\ pat_shown
    /\ p # pat
    /\ ScriptRun(session_state, project_group, project_id_in, p)
    /\ HandlerIdle
    /\ UNCHANGED checked_id
    /\ UNCHANGED pdfVars

\* The path write_pdf gives the PDF of a root project: one file per root.
PdfPath(root_idx) == <<"tmpdir", root_idx>>

Message(kind, text) == [kind |-> kind, text |-> text]
Download(mime, files) == [mime |-> mime, files |-> files]

\* (an exception that ends the script run with nothing shown on the page)
AppRaiseSilent(exc) ==
    /\ app_pc' = "failed"
    /\ messages' = messages
    /\ tmpdir' = {}

\* An uncaught exception ends the script run: Streamlit shows it on the
\* page; the temporary directory is removed as its with-block is left.
AppRaise(exc) ==
    /\ app_pc' = "failed"
    /\ messages' = Append(messages, Message("exception", exc))
    /\ tmpdir' = {}

\* The user clicks "Export to PDF" (lines 116-133): get_nodes is called,
\* the temporary directory is made.
ClickExport ==
    /\ Interactive
    /\ export_enabled
    /\ UNCHANGED <<project_group, project_id_in, session_state, checked_id, pat,
                   pat_shown, export_enabled>>
    /\ \/ /\ app_pc' = "failed"
          /\ messages' = <<Message("exception", "get_nodes")>>
          /\ root_nodes' = <<>>
          /\ tmpdir' = {}
          /\ downloads' = <<>>
       \/ \E n \in 0..MaxRoots :
             /\ root_nodes' = [i \in 1..n |-> i]
             /\ messages' = IF n = 0
                            THEN <<Message("error", "No projects found.")>>
                            ELSE <<>>
             /\ app_pc' = IF n = 0 THEN "finish" ELSE "write"
             /\ tmpdir' = {}
             /\ downloads' = <<>>
    /\ root_i' = 1
    /\ paths' = <<>>
    /\ pdf_count' = 0
    /\ archive' = {}
    /\ UNCHANGED pdfVars

\* Lines 134-141: one iteration of the loop over root_nodes.
write_pdf ==
    /\ app_pc = "write"
    /\ \/ /\ AppRaise("write_pdf")
          /\ UNCHANGED <<paths, pdf_count, root_i>>
       \/ /\ tmpdir' = tmpdir \cup {PdfPath(root_nodes[root_i])}
          /\ pdf_count' = pdf_count + 1
          /\ paths' = Append(paths, PdfPath(root_nodes[root_i]))
          /\ root_i' = root_i + 1
          /\ app_pc' = IF root_i = Len(root_nodes) THEN "finish" ELSE "write"
          /\ UNCHANGED messages
    /\ UNCHANGED <<project_group, project_id_in, session_state, checked_id, pat,
                   pat_shown, export_enabled, root_nodes, archive, downloads>>
    /\ UNCHANGED pdfVars

\* (a test that also zips a single PDF)
MakesZipAlways(count) == count > 0
\* Line 145: if pdf_count > 1
MakesZip(count) == count > 1

\* Lines 145-165: the zip archive or the single PDF, the download button.
offer_download ==
    /\ app_pc = "finish"
    /\ IF MakesZip(pdf_count)
       THEN /\ archive' = tmpdir
            /\ downloads' = Append(downloads, Download("application/zip", tmpdir))
            /\ messages' = messages \o
                  <<Message("info", "PDFs generated and compressed"),
                    Message("success", "PDFs Generated!")>>
            /\ app_pc' = "done"
            /\ tmpdir' = {}
       ELSE IF paths = <<>>
       THEN /\ AppRaise("IndexError")
            /\ UNCHANGED <<archive, downloads>>
       ELSE /\ downloads' = Append(downloads,
                                   Download("application/pdf", {paths[1]}))
            /\ messages' = Append(messages, Message("success", "PDFs Generated!"))
            /\ app_pc' = "done"
            /\ tmpdir' = {}
            /\ UNCHANGED archive
    /\ UNCHANGED <<project_group, project_id_in, session_state, checked_id, pat,
                   pat_shown, export_enabled, root_nodes, root_i, paths,
                   pdf_count>>
    /\ UNCHANGED pdfVars

\* -------------------------------------------------------------- specification

Init == InitPdf(MaxEntries, 1) /\ InitApp

Next ==
    \/ \E pt \in ProjectTypes, tok \in ApiTokens, t \in BOOLEAN :
          build_pdf(pt, tok, t) /\ UNCHANGED appVars
    \/ fetch_project_metadata /\ UNCHANGED appVars
    \/ fetch_contributors /\ UNCHANGED appVars
    \/ fetch_components(ComponentChoices) /\ UNCHANGED appVars
    \/ build_cover /\ UNCHANGED appVars
    \/ build_sections /\ UNCHANGED appVars
    \/ fetch_files_main /\ UNCHANGED appVars
    \/ traverse_get(Names, ByteSizes) /\ UNCHANGED appVars
    \/ traverse_entry /\ UNCHANGED appVars
    \/ traverse_return /\ UNCHANGED appVars
    \/ render_main_files /\ UNCHANGED appVars
    \/ fetch_wiki_pages(WikiChoices) /\ UNCHANGED appVars
    \/ fetch_wiki_content_by_id /\ UNCHANGED appVars
    \/ components_section /\ UNCHANGED appVars
    \/ component_begin /\ UNCHANGED appVars
    \/ render_comp_files /\ UNCHANGED appVars
    \/ doc_build /\ UNCHANGED appVars

Spec == Init /\ [][Next]_vars

\* fetch_files and render_file_table on a larger file tree: build_pdf at
\* line 316 of an export of a public project, the server holding up to
\* MaxTreeEntries entries with the names and sizes of TreeNames and
\* TreeByteSizes.
InitFiles ==
    /\ OSF_TOKEN = ""
    /\ HEADERS = NoneHeaders
    /\ pc = "call_main_files"
    /\ args = [project_type |-> "Public", api_token |-> "", isTest |-> FALSE]
    /\ token = ""
    /\ hdrs = get_headers("Public", "")
    /\ requests = [i \in 1..3 |->
                      [resource |-> <<"metadata", "contributors", "children">>[i],
                       headers |-> NoneHeaders, success |-> TRUE]]
    /\ metadata = FullMetadata
    /\ contributors = <<>>
    /\ components = <<>>
    /\ doc = [NoDoc EXCEPT !.opened = TRUE, !.filename = output_path]
    /\ story = render_contributors_section(<<>>,
                   render_metadata_section(FullMetadata,
                       CoverBlocks(FullMetadata.attributes.title,
                                   ProjectUrl(project_id, FALSE)),
                       Now))
    /\ stack = <<>>
    /\ all_files = <<>>
    /\ tree = EmptyTree
    /\ quota = MaxTreeEntries
    /\ wiki_pages = <<>>
    /\ wi = 0
    /\ ci = 0
    /\ result = NoResult
    /\ calls_left = 0
    /\ earlier = NoCall
    /\ InitApp

NextFiles ==
    \/ fetch_files_main /\ UNCHANGED appVars
    \/ traverse_get(TreeNames, TreeByteSizes) /\ UNCHANGED appVars
    \/ traverse_entry /\ UNCHANGED appVars
    \/ traverse_return /\ UNCHANGED appVars
    \/ render_main_files /\ UNCHANGED appVars

SpecFiles == InitFiles /\ [][NextFiles]_vars

\* Exports that follow one another in one process: up to MaxCalls calls of
\* build_pdf, each against a server holding up to MaxEntries entries.
\* The project has at most one component and one wiki page.
InitCalls == InitPdf(MaxEntries, MaxCalls) /\ InitApp

NextCalls ==
    \/ \E pt \in ProjectTypes, tok \in ApiTokens, t \in BOOLEAN :
          build_pdf(pt, tok, t) /\ UNCHANGED appVars
    \/ fetch_project_metadata /\ UNCHANGED appVars
    \/ fetch_contributors /\ UNCHANGED appVars
    \/ fetch_components({<<>>, <<Component(1)>>}) /\ UNCHANGED appVars
    \/ build_cover /\ UNCHANGED appVars
    \/ build_sections /\ UNCHANGED appVars
    \/ fetch_files_main /\ UNCHANGED appVars
    \/ traverse_get(Names, ByteSizes) /\ UNCHANGED appVars
    \/ traverse_entry /\ UNCHANGED appVars
    \/ traverse_return /\ UNCHANGED appVars
    \/ render_main_files /\ UNCHANGED appVars
    \/ fetch_wiki_pages({<<>>, <<WikiPage(1)>>}) /\ UNCHANGED appVars
    \/ fetch_wiki_content_by_id /\ UNCHANGED appVars
    \/ components_section /\ UNCHANGED appVars
    \/ component_begin /\ UNCHANGED appVars
    \/ render_comp_files /\ UNCHANGED appVars
    \/ doc_build /\ UNCHANGED appVars

SpecCalls == InitCalls /\ [][NextCalls]_vars

\* The front end: the user's interactions and the export handler.
InitAppOnly == InitPdf(MaxEntries, 0) /\ OSF_TOKEN = "" /\ InitApp

NextApp ==
    \/ \E g \in {AllProjects, SingleProject} : SelectGroup(g)
    \/ \E id \in ProjectIds : EnterProject(id)
    \/ \E id \in ProjectIds : ClickCheck(id)
    \/ \E p \in Pats : EnterPat(p)
    \/ ClickExport
    \/ write_pdf
    \/ offer_download

SpecApp == InitAppOnly /\ [][NextApp]_vars

\* ------------------------------------------------------------------- helpers

LastN(s, n) == SubSeq(s, Len(s) - n + 1, Len(s))
Count(s, b) == Cardinality({i \in 1..Len(s) : s[i] = b})
Pos(s, b) == CHOOSE i \in 1..Len(s) : s[i] = b
Abs(x) == IF x < 0 THEN -x ELSE x

\* fetch_files has returned and its list has not been rendered yet.
FetchFilesReturned == InFetchFiles /\ stack = <<>>
\* The node whose files fetch_files was called for.
FetchedNode == IF pc = "main_files" THEN project_id ELSE components[ci].id

\* The entry the server served under a download link.
ServedEntry(link) ==
    tree[Url(link.node, SubSeq(link.path, 1, Len(link.path) - 1))]
        [link.path[Len(link.path)]]

\* ------------------------------------------------------------------------ C1

\* C1: every GET of a build_pdf call carries "Authorization: Bearer <token>"
\* when a non-empty api_token was supplied, and carries no Authorization
\* header when none was. (The code passes the module's HEADERS, which is
\* None for every request.)
C1_RequestsCarryTheToken ==
    \A i \in 1..Len(requests) :
        IF args.api_token # ""
        THEN requests[i].headers = Bearer(args.api_token)
        ELSE requests[i].headers.kind = "None"

\* ------------------------------------------------------------------------ C2

\* The claim's flattening, from the listings the server served: the chain
\* of ancestor folder names and the file name, joined by slashes.
RECURSIVE JoinSlash(_)
JoinSlash(chain) ==
    IF Len(chain) = 1 THEN chain[1]
    ELSE chain[1] \o <<"/">> \o JoinSlash(Tail(chain))

RECURSIVE PreOrderFrom(_, _, _)
PreOrderFrom(url, ancestors, i) ==
    IF i > Len(tree[url]) THEN <<>>
    ELSE LET e == tree[url][i]
             here == IF e.kind = "file"
                     THEN <<[name |-> <<"/">> \o JoinSlash(Append(ancestors, e.name)),
                             link |-> e.link]>>
                     ELSE PreOrderFrom(e.href, Append(ancestors, e.name), 1)
         IN  here \o PreOrderFrom(url, ancestors, i + 1)

NameAndLink(files) ==
    [i \in 1..Len(files) |-> [name |-> files[i].name, link |-> files[i].link]]

\* C2: when fetch_files returns, its list is the pre-order depth-first
\* flattening of the served folder tree in response order: one entry per
\* file, none per folder, each named "/" + ancestors and file name joined
\* by "/".
C2_FetchFilesIsPreOrderFlattening ==
    FetchFilesReturned =>
        NameAndLink(all_files) = PreOrderFrom(Url(FetchedNode, <<>>), <<>>, 1)

\* A file inside a folder, listed before a file of the root that the server
\* lists after the folder.
C2_Witness ==
    /\ FetchFilesReturned
    /\ \E i, j \in 1..Len(all_files) :
          /\ i < j
          /\ Len(all_files[i].link.path) = 2
          /\ Len(all_files[j].link.path) = 1

\* ------------------------------------------------------------------------ C3

\* C3: a build_pdf call for a private project with no token (no api_token,
\* no OSF_TOKEN in the environment) fails with the token error before any
\* request is issued and before any document is created.
C3_NoTokenFailsBeforeAnyRequest ==
    (pc # "idle" /\ args.project_type = "Private" /\ args.api_token = ""
        /\ OSF_TOKEN = "")
    => /\ pc = "raised"
       /\ result.kind = "raise"
       /\ result.exc = "ValueError"
       /\ requests = <<>>
       /\ ~doc.opened
       /\ ~doc.built

C3_Witness ==
    /\ pc = "raised"
    /\ args.project_type = "Private"
    /\ args.api_token = ""
    /\ OSF_TOKEN = ""
    /\ result.exc = "ValueError"

\* ------------------------------------------------------------------------ C4

RequiredResources == {"metadata", "contributors", "children", "files"}

\* C4: a non-2xx answer to a required fetch (metadata, contributors,
\* children, a file listing of the project or of a component at any depth)
\* is the last request of the call: the failure leaves build_pdf, the
\* document is not built and no path is returned.
C4_RequiredFetchFailureAborts ==
    \A i \in 1..Len(requests) :
        (requests[i].resource \in RequiredResources /\ ~requests[i].success)
        => /\ i = Len(requests)
           /\ pc = "raised"
           /\ result.kind = "raise"
           /\ result.value # output_path
           /\ ~doc.built

\* The listing of a folder of a component fails.
C4_Witness ==
    /\ pc = "raised"
    /\ result.at = "files"
    /\ ~requests[Len(requests)].success
    /\ requests[Len(requests)].resource = "files"
    /\ ci >= 1
    /\ Len(stack) = 2

\* ------------------------------------------------------------------------ C5

WikiResources == {"wikis", "wiki_content"}
WikiFailed ==
    \E i \in 1..Len(requests) :
        requests[i].resource \in WikiResources /\ ~requests[i].success

\* The blocks of the inline diagnostic of a failed wiki list.
HasWikiErrorBlock ==
    \E k \in 1..Len(story) - 2 :
        /\ story[k] = WikiHeading
        /\ story[k + 1] = Paragraph(<<"Error">>, "MyHeading3")
        /\ story[k + 2].t = "Paragraph"
        /\ story[k + 2].text[1] = "Could not fetch wiki: "

\* The blocks of the page with this id, its content line being the
\* diagnostic.
HasNoContentLine(id) ==
    \E k \in 1..Len(story) - 2 :
        /\ story[k] = Paragraph(<<id>>, "Normal")
        /\ story[k + 2] = NoContentLine

\* C5: a failed fetch of the wiki list or of a page's content never leaves
\* build_pdf as an exception: the diagnostic block is in the story, the
\* export goes on to the components section (the only thing that can still
\* stop it is a failed file listing of a component), and when it ends it
\* has built the document and returned the path.
C5_WikiFailureIsContained ==
    /\ \A i \in 1..Len(requests) :
          (requests[i].resource = "wikis" /\ ~requests[i].success)
          => HasWikiErrorBlock
    /\ \A i, w \in 1..Len(requests) :
          (requests[w].resource = "wikis" /\ requests[i].resource = "wiki_content"
              /\ ~requests[i].success)
          => HasNoContentLine(WikiIds[i - w])
    /\ WikiFailed =>
          /\ pc = "raised" =>
                /\ requests[Len(requests)].resource = "files"
                /\ ~requests[Len(requests)].success
          /\ pc \in {"component", "comp_files", "build", "done"} =>
                Count(story, ComponentsHeading) = 1
          /\ pc = "done" =>
                /\ doc.built
                /\ doc.story = story
                /\ result.kind = "return"
                /\ result.value = output_path
          /\ pc \notin {"done", "raised"} => ENABLED Next

\* An export with components ends well although a wiki request failed.
C5_Witness ==
    /\ pc = "done"
    /\ WikiFailed
    /\ components # <<>>

\* ------------------------------------------------------------------------ C6

MetadataHeading == Paragraph(<<"1. Project Metadata">>, "MyHeading2")
ContributorsHeading == Paragraph(<<"2. Contributors">>, "MyHeading2")
MainFilesHeading == Paragraph(MainHeading, "MyHeading2")
ComponentTitle(j) == Paragraph(<<components[j].title>>, "MyHeading3")
ComponentUrl(j) == Paragraph(<<"Component URL: ">> \o components[j].html, "Normal")
\* The first block of a file-tree block that follows its heading.
StartsFileTree(b) == b = FilesHeading \/ b = NoFilesLine

\* The order of the claim without its page break, of a built document.
SectionsInOrder(s) ==
    LET url == ProjectUrl(project_id, args.isTest)
        m == Pos(s, MetadataHeading)
        c == Pos(s, ContributorsHeading)
        f == Pos(s, MainFilesHeading)
        w == Pos(s, WikiHeading)
        k == Pos(s, ComponentsHeading)
        t(j) == Pos(s, ComponentTitle(j))
    IN  /\ Len(s) >= 3
        /\ s[1] = Paragraph(<<metadata.attributes.title>>, "MyHeading1")
        /\ s[2] = Paragraph(<<"Project URL: ">> \o url, "Normal")
        /\ s[3] = RLImage([encodes |-> url])
        /\ \A b \in {MetadataHeading, ContributorsHeading, MainFilesHeading,
                     WikiHeading, ComponentsHeading} : Count(s, b) = 1
        /\ 3 < m /\ m < c /\ c < f /\ f < w /\ w < k
        /\ StartsFileTree(s[f + 1])
        /\ \A i \in 1..Len(s) :
              /\ (s[i].t = "Paragraph" /\ s[i].text[1] = "Exported At")
                    => (m < i /\ i < c)
              /\ (s[i].t = "Table" /\ s[i].header = ContributorsHeader)
                    => (c < i /\ i < f)
              /\ (s[i].t = "Table" /\ s[i].header = FileTableHeader)
                    => ((f < i /\ i < w) \/ k < i)
              /\ (s[i].t = "Paragraph" /\ s[i].style = "MyHeading3" /\ i < k)
                    => (w < i)
        /\ \A j \in 1..Len(components) :
              /\ Count(s, ComponentTitle(j)) = 1
              /\ k < t(j)
              /\ t(j) + 2 <= Len(s)
              /\ s[t(j) + 1] = ComponentUrl(j)
              /\ StartsFileTree(s[t(j) + 2])
              /\ j < Len(components) => t(j) + 2 < t(j + 1)

\* A forced page break between the contributors block and the main
\* file-tree block.
HasPageBreak(s) ==
    \E i \in 1..Len(s) :
        /\ s[i].t = "PageBreak"
        /\ Pos(s, ContributorsHeading) < i
        /\ i < Pos(s, MainFilesHeading)

\* C6, as stated: the built document is cover, metadata, contributors, a
\* forced page break, main file tree, wiki, then one section per component
\* in response order.
C6_OrderWithPageBreak ==
    pc = "done" => (SectionsInOrder(doc.story) /\ HasPageBreak(doc.story))

\* C6, amended: the built document is cover (title, project URL, QR code),
\* metadata, contributors, main file tree, wiki, then one section per
\* component (title, URL, file tree) in response order; there is no page
\* break between the contributors block and the main file tree.
C6_SectionsInOrder ==
    pc = "done" => (SectionsInOrder(doc.story) /\ ~HasPageBreak(doc.story))

\* A built document with two components, a contributor and a wiki page.
C6_Witness ==
    /\ pc = "done"
    /\ Len(components) = 2
    /\ contributors # <<>>
    /\ wiki_pages # <<>>

\* ------------------------------------------------------------------------ C7

\* C7: the built document draws on every page a footer with the export
\* timestamp, the page number and the QR code of the project URL. (The code
\* builds the document with no page callback.)
C7_EveryPageHasTheFooter ==
    pc = "done" =>
        LET footer == PageCallback(Now, TRUE,
                          generate_qr_code(ProjectUrl(project_id, args.isTest)))
        IN  /\ doc.onFirstPage = footer
            /\ doc.onLaterPages = footer

\* ------------------------------------------------------------------------ C8

\* The rows of a table are the files, one to one and in order.
RowsMatch(rows, files) ==
    /\ Len(rows) = Len(files)
    /\ \A i \in 1..Len(files) :
          rows[i].name = files[i].name /\ rows[i].link = files[i].link

\* What the claim has render_file_table append: the custom heading if
\* given, the fixed heading, then the "No files available" line, or the
\* table (and the spacer that closes it).
AppendedAsClaimed(s, files, heading) ==
    LET h == IF heading # <<>> THEN 1 ELSE 0
        n == h + (IF files = <<>> THEN 2 ELSE 3)
        a == LastN(s, n)
    IN  /\ Len(s) >= n
        /\ h = 1 => a[1] = Paragraph(heading, "MyHeading2")
        /\ a[h + 1] = FilesHeading
        /\ IF files = <<>>
           THEN a[h + 2] = NoFilesLine
           ELSE /\ a[h + 2].t = "Table"
                /\ a[h + 2].header = FileTableHeader
                /\ RowsMatch(a[h + 2].rows, files)
                /\ a[h + 3] = Spacer

\* render_file_table has just returned: for the main project, for a
\* component.
MainTableRendered == pc = "wiki"
CompTableRendered == pc \in {"component", "build"} /\ ci > 1

\* C8: render_file_table appends the custom heading when given, then the
\* fixed files heading, then one "No files available" line for an empty
\* list or one table with a row per file, in order. (The code returns
\* before the fixed heading when the list is empty.)
C8_FileTableBlocks ==
    /\ MainTableRendered => AppendedAsClaimed(story, all_files, MainHeading)
    /\ CompTableRendered => AppendedAsClaimed(story, all_files, <<>>)

\* ------------------------------------------------------------------------ C9

\* C9: the size of every entry of fetch_files is the served byte size
\* divided by 1,048,576 and rounded to the nearest hundredth, an absent or
\* zero byte size giving 0; and the table shows "N/A" exactly in the rows
\* whose size is zero, the size itself in the others.
C9_SizeInMbAndNA ==
    /\ \A i \in 1..Len(all_files) :
          LET e == ServedEntry(all_files[i].link)
              bytes == IF e.size.present THEN e.size.bytes ELSE 0
          IN  /\ 2 * Abs(all_files[i].size * 1048576 - bytes * 100) <= 1048576
              /\ bytes = 0 => all_files[i].size = 0
    /\ (MainTableRendered /\ all_files # <<>>) =>
          LET rows == story[Len(story) - 1].rows
          IN  /\ Len(rows) = Len(all_files)
              /\ \A i \in 1..Len(rows) :
                    /\ rows[i].size.str = "N/A" <=> all_files[i].size = 0
                    /\ all_files[i].size # 0 =>
                          (rows[i].size.num = all_files[i].size
                              /\ rows[i].size.str = "")

\* A table with a row of a file of 5242 bytes (0.00 MB, "N/A") and a row
\* of a file of 393216 bytes (0.375 MB, a tie, shown as 0.38).
C9_Witness ==
    /\ MainTableRendered
    /\ Len(all_files) >= 2
    /\ \E i, j \in 1..Len(all_files) :
          /\ ServedEntry(all_files[i].link).size = SizeOf(5242)
          /\ story[Len(story) - 1].rows[i].size.str = "N/A"
          /\ ServedEntry(all_files[j].link).size = SizeOf(393216)
          /\ story[Len(story) - 1].rows[j].size.num = 38

\* ----------------------------------------------------------------------- C10

\* The PDFs of the first n root projects, in order.
PdfsOf(n) == [i \in 1..n |-> PdfPath(root_nodes[i])]
PdfSet(n) == {PdfPath(root_nodes[i]) : i \in 1..n}

\* C10: the root projects are exported one at a time, in order, each to
\* its own PDF of the temporary directory, and an export that completes
\* over n root projects offers exactly one download: for n > 1 a zip
\* archive holding exactly the n PDFs, for n = 1 that project's PDF and no
\* zip. (An export that does not complete, n = 0 or a call that raises,
\* offers none.)
C10_OneArtifactPerExport ==
    /\ app_pc = "write" =>
          /\ pdf_count = root_i - 1
          /\ paths = PdfsOf(root_i - 1)
          /\ tmpdir = PdfSet(root_i - 1)
          /\ downloads = <<>>
    /\ app_pc = "done" =>
          LET n == Len(root_nodes)
          IN  /\ n >= 1
              /\ pdf_count = n
              /\ paths = PdfsOf(n)
              /\ Len(downloads) = 1
              /\ IF n > 1
                 THEN /\ downloads[1].mime = "application/zip"
                      /\ downloads[1].files = PdfSet(n)
                      /\ Cardinality(downloads[1].files) = n
                      /\ archive = PdfSet(n)
                 ELSE /\ downloads[1].mime = "application/pdf"
                      /\ downloads[1].files = {PdfPath(root_nodes[1])}
                      /\ archive = {}
    /\ (app_pc = "failed" /\ Len(root_nodes) >= 1) =>
          /\ messages[Len(messages)] = Message("exception", "write_pdf")
          /\ downloads = <<>>

\* An export of three root projects has offered its zip archive.
C10_Witness ==
    /\ app_pc = "done"
    /\ Len(root_nodes) = 3
    /\ Len(downloads) = 1
    /\ downloads[1].mime = "application/zip"


\* ----------------------------------------------------------------------- C11

\* The export of the last click on "Export to PDF" has failed: a call of
\* the handler raised, or get_nodes gave no root project.
ExportFailed ==
    \/ app_pc = "failed"
    \/ app_pc = "finish" /\ root_nodes = <<>>

\* The page shows an error: an st.error box or the box of an uncaught
\* exception.
ErrorShown ==
    \E i \in 1..Len(messages) : messages[i].kind \in {"error", "exception"}

\* C11: whenever an export started from the app has failed (get_nodes gave
\* no root projects, or get_nodes or write_pdf raised for some project), the
\* page shows an error message and no download control.
C11_FailedExportShowsErrorAndNoDownload ==
    ExportFailed => (ErrorShown /\ downloads = <<>>)

\* write_pdf raised after the PDF of an earlier root project was written.
C11_Witness ==
    /\ app_pc = "failed"
    /\ Len(root_nodes) >= 2
    /\ pdf_count >= 1
    /\ messages[Len(messages)] = Message("exception", "write_pdf")


\* ----------------------------------------------------------------------- C12

\* What a call works with is fixed by its own arguments and the module's
\* globals: its token, its local headers, the headers of its requests.
CallDependsOnOwnArgs ==
    pc # "idle" =>
        /\ hdrs = get_headers(args.project_type, OSF_TOKEN)
        /\ token = IF args.project_type = "Private" /\ args.api_token = ""
                   THEN OSF_TOKEN
                   ELSE args.api_token
        /\ (pc = "raised" /\ result.at = "token")
              <=> (args.project_type = "Private" /\ token = "")
        /\ \A i \in 1..Len(requests) : requests[i].headers = NoneHeaders

\* C12: in any sequence of build_pdf calls with any project_type and
\* api_token, no step changes the module-level HEADERS or OSF_TOKEN, so
\* they are after each call what they were before the first one, and the
\* headers and the token check of a call are fixed by its own arguments,
\* whatever the call before it was given.
C12_CallsShareNoMutableState ==
    /\ []CallDependsOnOwnArgs
    /\ [][HEADERS' = HEADERS /\ OSF_TOKEN' = OSF_TOKEN]_vars

\* A public export without token has been built after a private export
\* with a token.
C12_Witness ==
    /\ calls_left = 0
    /\ earlier = [project_type |-> "Private", api_token |-> "tok"]
    /\ args.project_type = "Public"
    /\ args.api_token = ""
    /\ pc = "done"
    /\ requests # <<>>
    /\ HEADERS = NoneHeaders


\* ----------------------------------------------------------------------- C13

\* The page is in single-project mode with the export button enabled.
SingleExportEnabled == project_group = SingleProject /\ export_enabled

\* C13: after any sequence of interactions, when "Export to PDF" is
\* enabled in single-project mode, check_visibility has been completed for
\* the id entered now: the stored result is of a check of that id, and the
\* export is enabled by a public result of it or by a token typed into the
\* field shown after it. A run that finds the id changed leaves
\* checked_if_public and is_public FALSE.
C13_ExportNeedsCheckOfCurrentId ==
    /\ [](SingleExportEnabled =>
            /\ project_id_in # ""
            /\ session_state.current_id = project_id_in
            /\ session_state.checked_if_public
            /\ checked_id = project_id_in
            /\ (session_state.is_public \/ (pat # "" /\ pat_shown)))
    /\ [][(project_group' = SingleProject
              /\ session_state'.current_id # session_state.current_id)
            => (~session_state'.checked_if_public
                  /\ ~session_state'.is_public
                  /\ ~export_enabled')]_vars

\* Another id has been entered after a check of an earlier id, with the
\* earlier check's result 'public' or a token typed before the change.
C13_Witness ==
    /\ project_group = SingleProject
    /\ checked_id # ""
    /\ project_id_in # ""
    /\ checked_id # project_id_in
    /\ ~export_enabled
    /\ ~session_state.checked_if_public

====
